---------------------------- MODULE Spec2Model ----------------------------
(***************************************************************************)
(* DataStream: the chunk sources of data-stream/ as one state machine.     *)
(*                                                                         *)
(* A source is created by create_socket_reader (sock_reader.hpp:395-408)   *)
(* as SocketReaderImpl<true> (raw capture) or SocketReaderImpl<false>      *)
(* (UDP).  The caller then calls read_into repeatedly with a buffer of     *)
(* chunk_size bytes (tests/test_sock_reader.cpp:163,189).                  *)
(*                                                                         *)
(* read_into of the raw variant is a loop; one iteration is a blocking     *)
(* recvfrom (action RecvFrame / RecvTimeout / RecvInterrupt / RecvFault)   *)
(* followed by the parsing of the received frame (action ParseStep).       *)
(*                                                                         *)
(* frame_buffer_ is a 65536-byte array that is never initialised and of    *)
(* which recvfrom overwrites only the first recv_bytes bytes.  The model   *)
(* keeps the bytes the pending recvfrom delivered (variable frame_buffer_, *)
(* of length recv_bytes); every byte at an index >= recv_bytes is left     *)
(* over from an earlier frame or indeterminate, and a read of it yields    *)
(* any value of StaleBytes.                                                *)
(*                                                                         *)
(* Five specifications share the variables:                                *)
(*   Spec / FairSpec  a constructed socket source whose frames arrive while*)
(*                    it receives (RecvFrame draws them from Frames);      *)
(*   NetSpec          the socket source from the factory call on: the      *)
(*                    constructor's steps, frames that queue on the socket *)
(*                    from socket() on (Arrive, RecvQueued), calls, delete;*)
(*   SeqSpec          the constructed raw source with a record of the      *)
(*                    frames queued (arrived) and of the data returned     *)
(*                    (delivered);                                         *)
(*   FileSpec         one FileReader (file_reader.hpp): constructor steps, *)
(*                    read_into, jump_to, close, destructor; OwnSpec adds a*)
(*                    copy of the object;                                  *)
(*   CountSpec        the constructor and get_chunk_count for sizes near 0 *)
(*                    and near the largest size_t.                         *)
(* size_t has SizeBits bits; the file is its length, byte i being          *)
(* FileByte(i); the FILE is a position, a buffer window and two flags.     *)
(***************************************************************************)
EXTENDS Integers, Sequences, FiniteSets, TLC

\* ------------------------------------------------------------------ bounds
\* Longest UDP payload a frame of the model carries.
MaxPayload == 2
\* Saturation value of the per-call count of discarded wrong-port frames.
MaxSkips == 1
\* Saturation value of the count of iterations of the UDP variant's loop.
MaxIters == 2
\* Most frames the socket's receive queue holds at a time.
MaxQueue == 1
\* Longest file.
MaxFileLen == 3
\* Largest chunk size of a file reader.
MaxChunk == 2
\* Most reads logged between two positionings of a file reader.
MaxReads == 5
\* Bytes the stdio buffer holds when the stream keeps its default buffer.
DefaultBuf == 2
\* Largest offset a file reader is constructed with.
MaxOffs == 1
\* Bits of a size_t.
SizeBits == 14
\* How far from 0 and from the largest size_t the sizes of CountSpec reach.
SampleSpan == 3
\* frames that reach the socket in a recorded run
MaxArrivals == 3

\* ------------------------------------------------------- program constants
ETH_HLEN == 14
MIN_IP_HLEN == 20
UDP_HLEN == 8
MAX_FRAME_SIZE == 65536
DEFAULT_PORT == 9999
DEFAULT_TIMEOUT_MS == 1000
\* what the socket filter compares the EtherType and the IP protocol with
ETH_P_IP == 2048
IPPROTO_UDP == 17

\* chunk sizes the caller configures (the caller's buffer has that capacity)
ChunkSizes == {1, 2}
\* timeout_ms <= 0 means that no SO_RCVTIMEO is set (set_timeout)
TimeoutValues == {0, DEFAULT_TIMEOUT_MS}

Min(a, b) == IF a < b THEN a ELSE b
Max(a, b) == IF a > b THEN a ELSE b

\* ------------------------------------------------------------ wire frames
HiByte(p) == p \div 256
LoByte(p) == p % 256
\* a port that differs from p in both bytes: p with its bytes swapped
SwapBytes(p) == LoByte(p) * 256 + HiByte(p)

\* every byte of a frame that is neither the version/IHL byte nor the UDP
\* destination port; the bytes of any two places less than three apart
\* differ, and no two of them form one of the ports
Fill(i) == 1 + (i % 3)

\* The frame of F bytes whose IP header announces ihl words and whose bytes at
\* the place of the UDP destination port for that header length hold dport.
\* Its EtherType is IPv4 and its IP protocol is UDP.
MkFrame(F, ihl, dport) ==
    [k \in 1..F |->
        LET i == k - 1 IN
        IF i = ETH_HLEN THEN 64 + ihl
        ELSE IF i = ETH_HLEN + 4 * ihl + 2 THEN HiByte(dport)
        ELSE IF i = ETH_HLEN + 4 * ihl + 3 THEN LoByte(dport)
        ELSE IF i = 12 THEN HiByte(ETH_P_IP)
        ELSE IF i = 13 THEN LoByte(ETH_P_IP)
        ELSE IF i = 23 THEN IPPROTO_UDP
        ELSE Fill(i)]

MIN_FRAME == ETH_HLEN + MIN_IP_HLEN + UDP_HLEN

\* longest frame with that IHL: its header stack (at least the minimum one)
\* plus MaxPayload bytes
MaxLenFor(ihl) == Max(MIN_FRAME, ETH_HLEN + 4 * ihl + UDP_HLEN) + MaxPayload

DPorts == {DEFAULT_PORT, SwapBytes(DEFAULT_PORT)}

\* IHL values the frames shorter than the minimum frame carry
ShortIhls == {0, 5}

\* Frames the interface delivers: for every IHL nibble, every length from the
\* minimum frame up to the longest one for that IHL, with either port; and
\* frames of every length below the minimum.
LongFrames ==
    UNION { { MkFrame(F, ihl, d) : F \in MIN_FRAME..MaxLenFor(ihl), d \in DPorts }
            : ihl \in 0..15 }

ShortFrames ==
    { MkFrame(F, ihl, d) : F \in 0..(MIN_FRAME - 1), ihl \in ShortIhls, d \in DPorts }

Frames == LongFrames \cup ShortFrames

StaleBytes == {HiByte(DEFAULT_PORT), LoByte(DEFAULT_PORT), 0}

\* create_socket_reader: SocketReaderImpl<true> iff is_raw
Variant(raw) == IF raw THEN "raw" ELSE "udp"

VARIABLES
    is_raw,         \* the factory's argument
    kind,           \* "raw" (SocketReaderImpl<true>) or "udp" (<false>)
    port_,          \* configured UDP destination port
    timeout_ms_,    \* configured receive timeout
    chunk_size_,    \* configured chunk size
    pc,             \* "new", "idle", "recv", "parse", "udp_loop", "crashed",
                    \* "destroyed"
    frame_buffer_,  \* the bytes the pending recvfrom wrote (recv_bytes of them)
    reads,          \* indices of frame_buffer_ the last parse read
    buff,           \* the caller's buffer, chunk_size_ bytes
    outcome,        \* how the last call ended
    ret,            \* the value the last call returned
    written,        \* the number of bytes the last call stored through buff
    skipped,        \* wrong-port frames discarded by the call (saturating)
    iters,          \* completed iterations of the UDP loop (saturating)
    setup,          \* the constructor's next step, "done" or "failed"
    thrown,         \* the call whose failure made the constructor throw
    sock_fd_,       \* "invalid", or the descriptor's state: "open", "closed"
    closes,         \* close_socket calls on the descriptor (saturating)
    rcvbuf,         \* "default", or "enlarged" by set_buffer_size
    filter,         \* whether the socket filter is attached
    returned,       \* the variant create_socket_reader returned, or "none"
    rxq,            \* the frames queued on the socket, oldest first
    prev,           \* how the call before the current one ended
    file_len,       \* the length of the file at path
    chunk_sz,       \* FileReader: configured chunk size
    offs,           \* FileReader: the constructor's offset argument
    file_buffer_sz, \* FileReader: the constructor's stdio buffer size
    fsz,            \* FileReader: file size read at construction
    chunk_count,    \* FileReader: chunk count computed at construction
    inst,           \* the FileReader objects: lifetime, pf and vbuf_ of each
    stream,         \* the FILE that fopen returned
    vb,             \* the malloc'ed stdio buffer: "none", "allocated", "freed"
    fcloses,        \* fclose calls on the FILE (saturating)
    frees,          \* free calls on the stdio buffer (saturating)
    results,        \* what the reads since the last positioning returned
    got,            \* the bytes those reads stored in the caller's buffer
    seek_at,        \* the offset of the last positioning
    arrived,        \* every frame queued on the socket so far, oldest first
    delivered       \* what each call that returned Data returned, oldest first

\* the socket reader's call state
callv == <<pc, frame_buffer_, reads, buff, outcome, ret, written, skipped, iters>>

\* the socket and its construction
sockv == <<setup, thrown, sock_fd_, closes, rcvbuf, filter, returned>>

vars == <<is_raw, kind, port_, timeout_ms_, chunk_size_, pc, frame_buffer_, reads,
          buff, outcome, ret, written, skipped, iters,
          setup, thrown, sock_fd_, closes, rcvbuf, filter, returned, rxq, prev,
          file_len, chunk_sz, offs, file_buffer_sz, fsz, chunk_count, inst, stream,
          vb, fcloses, frees, results, got, seek_at, arrived, delivered>>

\* the record of the frames queued and of the data returned
logv == <<arrived, delivered>>

\* the file reader, its file and its stdio stream
filev == <<file_len, chunk_sz, offs, file_buffer_sz, fsz, chunk_count, inst, stream,
           vb, fcloses, frees, results, got, seek_at>>

\* a FileReader object that does not exist
NoObject == [life |-> "none", pf |-> "null", vbuf_ |-> "null"]

\* a FILE that was never opened
NoStream == [st |-> "none", pos |-> 0, bstart |-> 0, blen |-> 0, cap |-> 0,
             eof |-> FALSE, err |-> FALSE]

\* no file reader anywhere
NoFile ==
    /\ file_len = 0
    /\ chunk_sz = 0
    /\ offs = 0
    /\ file_buffer_sz = 0
    /\ fsz = 0
    /\ chunk_count = 0
    /\ inst = [i \in {"a", "b"} |-> NoObject]
    /\ stream = NoStream
    /\ vb = "none"
    /\ fcloses = 0
    /\ frees = 0
    /\ results = << >>
    /\ got = << >>
    /\ seek_at = 0

config == <<is_raw, kind, port_, timeout_ms_, chunk_size_>>

Init ==
    /\ is_raw \in BOOLEAN
    /\ kind = Variant(is_raw)
    /\ port_ = DEFAULT_PORT
    /\ timeout_ms_ \in TimeoutValues
    /\ chunk_size_ \in ChunkSizes
    /\ pc = "idle"
    /\ frame_buffer_ = << >>
    /\ reads = {}
    /\ buff = [k \in 1..chunk_size_ |-> 0]
    /\ outcome = "none"
    /\ ret = 0
    /\ written = 0
    /\ skipped = 0
    /\ iters = 0
    /\ setup = "done"
    /\ thrown = "none"
    /\ sock_fd_ = "open"
    /\ closes = 0
    /\ rcvbuf = "enlarged"
    /\ filter = (kind = "raw")
    /\ returned = Variant(is_raw)
    /\ rxq = << >>
    /\ prev = "none"
    /\ NoFile
    /\ arrived = << >>
    /\ delivered = << >>

\* ------------------------------------------------------- raw read_into
\* frame_buffer_[i] as the code reads it: the received byte, or for an index
\* the recvfrom did not write, whatever the array holds there
ReadByte(f, i, stale) == IF i < Len(f) THEN f[i + 1] ELSE stale

\* faulty variant: the minimum taken without the UDP header
FrameTooSmall_NoUdpHeader(recv_bytes) == recv_bytes < ETH_HLEN + MIN_IP_HLEN

\* static_cast<size_t>(recv_bytes) < 14 + 20 + 8
FrameTooSmall(recv_bytes) == recv_bytes < ETH_HLEN + MIN_IP_HLEN + UDP_HLEN

\* uint8_t ip_header_len = (ip_header[0] & 0x0F) * 4
IpHeaderLen(b) == ((b % 16) * 4) % 256

\* faulty variant: the length in bytes compared with the minimum IHL in words
BadIpHeaderLen_InWords(ip_header_len) == ip_header_len < 5

\* ip_header_len < 20
BadIpHeaderLen(ip_header_len) == ip_header_len < MIN_IP_HLEN

\* faulty variant: the port composed little-endian
UdpDestPort_LittleEndian(b2, b3) == (b3 * 256 + b2) % 65536

\* uint16_t udp_dest_port = (udp_header[2] << 8) | udp_header[3]
UdpDestPort(b2, b3) == (b2 * 256 + b3) % 65536

\* size_t total_headers = 14 + ip_header_len + 8
TotalHeaders(ip_header_len) == ETH_HLEN + ip_header_len + UDP_HLEN

\* faulty variant: the payload taken to start at the UDP header
PayloadOffset_NoUdpHeader(ip_header_len) == ETH_HLEN + ip_header_len

\* udp_payload = udp_header + 8, as an index of frame_buffer_
PayloadOffset(ip_header_len) == ETH_HLEN + ip_header_len + UDP_HLEN

\* size_t payload_len = recv_bytes - total_headers
PayloadLen(recv_bytes, total_headers) == recv_bytes - total_headers

\* One pass over a received frame f, lines 339-380: what the iteration does
\* (res), the indices of frame_buffer_ it reads, and for a copy its source.
\* sHi and sLo are what the array holds at the two port offsets when the
\* recvfrom did not write them.
ParseFrame(f, sHi, sLo, port) ==
    LET recv_bytes == Len(f) IN
    IF FrameTooSmall(recv_bytes)
    THEN [res |-> "FrameTooSmall", rd |-> {}, off |-> 0, len |-> 0]
    ELSE
    LET ip_header_len == IpHeaderLen(ReadByte(f, ETH_HLEN, 0)) IN
    IF BadIpHeaderLen(ip_header_len)
    THEN [res |-> "BadIHL", rd |-> {ETH_HLEN}, off |-> 0, len |-> 0]
    ELSE
    LET udp_header == ETH_HLEN + ip_header_len
        udp_dest_port == UdpDestPort(ReadByte(f, udp_header + 2, sHi),
                                     ReadByte(f, udp_header + 3, sLo))
        rdPort == {ETH_HLEN, udp_header + 2, udp_header + 3}
    IN
    IF udp_dest_port # port
    THEN [res |-> "skip", rd |-> rdPort, off |-> 0, len |-> 0]
    ELSE
    LET total_headers == TotalHeaders(ip_header_len) IN
    IF recv_bytes < total_headers
    THEN [res |-> "SizeMismatch", rd |-> rdPort, off |-> 0, len |-> 0]
    ELSE
    LET off == PayloadOffset(ip_header_len)
        len == PayloadLen(recv_bytes, total_headers)
    IN [res |-> "copy", rd |-> rdPort \cup (off..(off + len - 1)),
        off |-> off, len |-> len]

\* What frame_buffer_ may hold at byte k of the UDP header of f: nothing to
\* choose when the recvfrom wrote that byte, or when f is not parsed that far
StaleAt(f, k) ==
    IF /\ ~FrameTooSmall(Len(f))
       /\ ~BadIpHeaderLen(IpHeaderLen(f[ETH_HLEN + 1]))
       /\ ETH_HLEN + IpHeaderLen(f[ETH_HLEN + 1]) + k >= Len(f)
    THEN StaleBytes
    ELSE {0}

\* std::memcpy(dst, src, n) as far as it lands in dst; the bytes past the
\* end of dst go to whatever memory follows the caller's buffer
Memcpy(dst, src, n) ==
    [k \in 1..Len(dst) |-> IF k <= n THEN src[k] ELSE dst[k]]

Sat(n, cap) == IF n < cap THEN n + 1 ELSE cap

\* the caller enters read_into
CallReadInto ==
    /\ pc = "idle"
    /\ pc' = IF kind = "raw" THEN "recv" ELSE "udp_loop"
    /\ frame_buffer_' = << >>
    /\ reads' = {}
    /\ outcome' = "none"
    /\ ret' = 0
    /\ written' = 0
    /\ skipped' = 0
    /\ iters' = 0
    /\ UNCHANGED <<config, buff>>

\* recvfrom returns a frame: recv_bytes >= 0
RecvFrame ==
    /\ pc = "recv"
    /\ \E f \in Frames :
          frame_buffer_' = SubSeq(f, 1, Min(Len(f), MAX_FRAME_SIZE))
    /\ pc' = "parse"
    /\ UNCHANGED <<config, reads, buff, outcome, ret, written, skipped,
                   iters>>

\* recvfrom returns -1 with EAGAIN / EWOULDBLOCK: throw ReadTimeout.
\* SO_RCVTIMEO is set only when timeout_ms_ > 0 (set_timeout).
RecvTimeout ==
    /\ pc = "recv"
    /\ timeout_ms_ > 0
    /\ pc' = "idle"
    /\ outcome' = "ReadTimeout"
    /\ UNCHANGED <<config, frame_buffer_, reads, buff, ret, written, skipped,
                   iters>>

\* faulty variant: on EINTR return recv_bytes, which is -1
RecvInterrupt_ReturnsRecvBytes ==
    /\ pc = "recv"
    /\ pc' = "idle"
    /\ outcome' = "Interrupted"
    /\ ret' = -1
    /\ UNCHANGED <<config, frame_buffer_, reads, buff, written, skipped, iters>>

\* recvfrom returns -1 with EINTR: return 0
RecvInterrupt ==
    /\ pc = "recv"
    /\ pc' = "idle"
    /\ outcome' = "Interrupted"
    /\ ret' = 0
    /\ UNCHANGED <<config, frame_buffer_, reads, buff, written, skipped, iters>>

\* recvfrom returns -1 with any other errno: throw SocketError
RecvFault ==
    /\ pc = "recv"
    /\ pc' = "idle"
    /\ outcome' = "RecvError"
    /\ UNCHANGED <<config, frame_buffer_, reads, buff, ret, written, skipped,
                   iters>>

\* faulty variant: the payload is copied to the caller's buffer before the
\* destination port is compared, so a discarded frame leaves its bytes there
ParseStep_CopyBeforePortCheck ==
    /\ pc = "parse"
    /\ \E sHi \in StaleAt(frame_buffer_, 2), sLo \in StaleAt(frame_buffer_, 3) :
        LET r == ParseFrame(frame_buffer_, sHi, sLo, port_)
            off == PayloadOffset(IpHeaderLen(ReadByte(frame_buffer_, ETH_HLEN, 0)))
            len == Max(0, Len(frame_buffer_) - off)
        IN
        /\ reads' = r.rd
        /\ \/ /\ r.res \in {"FrameTooSmall", "BadIHL", "SizeMismatch"}
              /\ pc' = "idle"
              /\ outcome' = r.res
              /\ UNCHANGED <<frame_buffer_, buff, ret, written, skipped>>
           \/ /\ r.res = "skip"
              /\ pc' = "recv"
              /\ frame_buffer_' = << >>
              /\ skipped' = Sat(skipped, MaxSkips)
              /\ buff' = Memcpy(buff, SubSeq(frame_buffer_, off + 1, off + len), len)
              /\ written' = len
              /\ UNCHANGED <<outcome, ret>>
           \/ /\ r.res = "copy"
              /\ buff' = Memcpy(buff, SubSeq(frame_buffer_, r.off + 1, r.off + r.len), r.len)
              /\ written' = r.len
              /\ pc' = "idle" /\ outcome' = "Data" /\ ret' = r.len
              /\ UNCHANGED <<frame_buffer_, skipped>>
    /\ UNCHANGED <<config, iters>>

\* lines 339-380 on the frame just received
ParseStep ==
    /\ pc = "parse"
    /\ \E sHi \in StaleAt(frame_buffer_, 2), sLo \in StaleAt(frame_buffer_, 3) :
        LET r == ParseFrame(frame_buffer_, sHi, sLo, port_) IN
        /\ reads' = r.rd
        /\ \/ /\ r.res \in {"FrameTooSmall", "BadIHL", "SizeMismatch"}
              /\ pc' = "idle"
              /\ outcome' = r.res
              /\ UNCHANGED <<frame_buffer_, buff, ret, written, skipped>>
           \/ /\ r.res = "skip"
              /\ pc' = "recv"
              /\ frame_buffer_' = << >>
              /\ skipped' = Sat(skipped, MaxSkips)
              /\ UNCHANGED <<buff, outcome, ret, written>>
           \/ /\ r.res = "copy"
              /\ buff' = Memcpy(buff, SubSeq(frame_buffer_, r.off + 1, r.off + r.len), r.len)
              /\ written' = r.len
              /\ \/ pc' = "idle" /\ outcome' = "Data" /\ ret' = r.len
                 \/ \* a copy longer than the caller's buffer overruns it:
                    \* the call may as well never return
                    /\ r.len > Len(buff)
                    /\ pc' = "crashed" /\ outcome' = "Crash" /\ ret' = 0
              /\ UNCHANGED <<frame_buffer_, skipped>>
    /\ UNCHANGED <<config, iters>>

\* -------------------------------------------------------- UDP read_into
\* SocketReaderImpl<false>::read_into: the loop body is empty (lines 385-388)
UdpLoop ==
    /\ pc = "udp_loop"
    /\ iters' = Sat(iters, MaxIters)
    /\ UNCHANGED <<config, pc, frame_buffer_, reads, buff, outcome, ret,
                   written, skipped>>

\* An endless loop without side effects has undefined behaviour: a build may
\* drop it, and the call then returns whatever the return register holds.
UdpUndefinedReturn ==
    /\ pc = "udp_loop"
    /\ pc' = "idle"
    /\ outcome' = "Indeterminate"
    /\ \E n \in 0..(chunk_size_ + 1) : ret' = n
    /\ UNCHANGED <<config, frame_buffer_, reads, buff, written, skipped,
                   iters>>

\* The calls of a constructed source whose frames arrive while it receives.
Next ==
    \/ CallReadInto /\ UNCHANGED <<sockv, rxq, prev, filev, logv>>
    \/ RecvFrame /\ UNCHANGED <<sockv, rxq, prev, filev, logv>>
    \/ RecvTimeout /\ UNCHANGED <<sockv, rxq, prev, filev, logv>>
    \/ RecvInterrupt /\ UNCHANGED <<sockv, rxq, prev, filev, logv>>
    \/ RecvFault /\ UNCHANGED <<sockv, rxq, prev, filev, logv>>
    \/ ParseStep /\ UNCHANGED <<sockv, rxq, prev, filev, logv>>
    \/ UdpLoop /\ UNCHANGED <<sockv, rxq, prev, filev, logv>>
    \/ UdpUndefinedReturn /\ UNCHANGED <<sockv, rxq, prev, filev, logv>>

Spec == Init /\ [][Next]_vars

\* The calling thread keeps running: a pending recvfrom returns (with a frame,
\* a timeout, an interrupt or a fault), a received frame is parsed, and a
\* recvfrom that waits for timeout_ms_ without a frame times out.
ReadIntoStep ==
    (RecvFrame \/ RecvTimeout \/ RecvInterrupt \/ RecvFault \/ ParseStep)
        /\ UNCHANGED <<sockv, rxq, prev, filev, logv>>

FairSpec ==
    /\ Spec
    /\ WF_vars(ReadIntoStep)
    /\ WF_vars(ParseStep /\ UNCHANGED <<sockv, rxq, prev, filev, logv>>)
    /\ WF_vars(RecvTimeout /\ UNCHANGED <<sockv, rxq, prev, filev, logv>>)

\* ------------------------------------- construction and the receive queue
\* The socket filter setup_bpf_filter attaches: accept a frame whose half
\* word at offset 12 is ETH_P_IP and whose byte at offset 23 is IPPROTO_UDP.
\* A load beyond the end of the frame rejects it.
BpfAccepts(f) ==
    /\ Len(f) >= 14
    /\ f[13] * 256 + f[14] = ETH_P_IP
    /\ Len(f) >= 24
    /\ f[24] = IPPROTO_UDP

\* the frame f under another EtherType
OtherEtherType(f) ==
    [f EXCEPT ![13] = HiByte(ETH_P_IP + 6), ![14] = LoByte(ETH_P_IP + 6)]

\* Frames on the wire while the socket exists: below the minimum length, with
\* an IHL below 5, shorter than their header stack, for another port, for the
\* configured port with a payload of one byte and of MaxPayload bytes, and
\* one that is not IPv4.
NetFrames ==
    { MkFrame(MIN_FRAME - 1, 5, DEFAULT_PORT),
      MkFrame(MIN_FRAME, 4, DEFAULT_PORT),
      MkFrame(MIN_FRAME, 6, DEFAULT_PORT),
      MkFrame(MIN_FRAME + 1, 5, SwapBytes(DEFAULT_PORT)),
      MkFrame(MIN_FRAME + 1, 5, DEFAULT_PORT),
      MkFrame(MIN_FRAME + MaxPayload, 5, DEFAULT_PORT),
      OtherEtherType(MkFrame(MIN_FRAME + 1, 5, DEFAULT_PORT)) }

\* close_socket(sock_fd_)
CloseSocket ==
    /\ sock_fd_' = "closed"
    /\ closes' = Sat(closes, 2)
    /\ rxq' = << >>

\* a constructor step throws SocketError: no object, the factory returns
\* nothing
Throw(call) ==
    /\ thrown' = call
    /\ setup' = "failed"

\* setup_socket: socket(AF_PACKET, SOCK_RAW, htons(ETH_P_ALL)) or
\* socket(AF_INET, SOCK_DGRAM, 0)
SetupSocket ==
    /\ setup = "setup_socket"
    /\ \/ /\ sock_fd_' = "open"
          /\ setup' = "set_buffer_size"
          /\ UNCHANGED thrown
       \/ /\ Throw("socket")
          /\ UNCHANGED sock_fd_
    /\ UNCHANGED <<config, callv, closes, rcvbuf, filter, returned, rxq, prev>>

\* set_buffer_size: SO_RCVBUFFORCE, then SO_RCVBUF; a failure only warns
SetBufferSize ==
    /\ setup = "set_buffer_size"
    /\ rcvbuf' \in {"enlarged", "default"}
    /\ setup' = "setup_bpf_filter"
    /\ UNCHANGED <<config, callv, thrown, sock_fd_, closes, filter, returned,
                   rxq, prev>>

\* setup_bpf_filter: SO_ATTACH_FILTER on the raw variant, nothing on the other
SetupBpfFilter ==
    /\ setup = "setup_bpf_filter"
    /\ \/ /\ kind = "raw"
          /\ filter' = TRUE
          /\ setup' = "bind_socket"
          /\ UNCHANGED <<thrown, sock_fd_, closes, rxq>>
       \/ /\ kind = "raw"
          /\ CloseSocket
          /\ Throw("SO_ATTACH_FILTER")
          /\ UNCHANGED filter
       \/ /\ kind = "udp"
          /\ setup' = "bind_socket"
          /\ UNCHANGED <<thrown, sock_fd_, closes, rxq, filter>>
    /\ UNCHANGED <<config, callv, rcvbuf, returned, prev>>

\* the calls of bind_socket, in order
BindCalls(k) ==
    IF k = "raw" THEN <<"SO_BINDTODEVICE", "SIOCGIFINDEX", "bind">>
    ELSE <<"inet_pton", "bind">>

\* faulty variant: a failing call throws with the socket left open
BindSocket_NoClose ==
    /\ setup = "bind_socket"
    /\ \/ /\ setup' = "set_timeout"
          /\ UNCHANGED thrown
       \/ \E i \in 1..Len(BindCalls(kind)) : Throw(BindCalls(kind)[i])
    /\ UNCHANGED <<config, callv, sock_fd_, closes, rxq, rcvbuf, filter,
                   returned, prev>>

\* bind_socket: every call succeeds, or the first one that fails closes the
\* socket and throws
BindSocket ==
    /\ setup = "bind_socket"
    /\ \/ /\ setup' = "set_timeout"
          /\ UNCHANGED <<thrown, sock_fd_, closes, rxq>>
       \/ \E i \in 1..Len(BindCalls(kind)) :
             /\ CloseSocket
             /\ Throw(BindCalls(kind)[i])
    /\ UNCHANGED <<config, callv, rcvbuf, filter, returned, prev>>

\* set_timeout: SO_RCVTIMEO when timeout_ms_ > 0; then the constructor ends
\* and create_socket_reader returns the new object
SetTimeout ==
    /\ setup = "set_timeout"
    /\ \/ /\ setup' = "done"
          /\ returned' = Variant(is_raw)
          /\ pc' = "idle"
          /\ UNCHANGED <<thrown, sock_fd_, closes, rxq>>
       \/ /\ timeout_ms_ > 0
          /\ CloseSocket
          /\ Throw("SO_RCVTIMEO")
          /\ UNCHANGED <<returned, pc>>
    /\ UNCHANGED <<config, frame_buffer_, reads, buff, outcome, ret, written,
                   skipped, iters, rcvbuf, filter, prev>>

\* ~SocketReaderImpl (delete reader): close the descriptor unless it is
\* INVALID_SOCKET_FD
Destroy ==
    /\ setup = "done"
    /\ pc = "idle"
    /\ pc' = "destroyed"
    /\ IF sock_fd_ # "invalid" THEN CloseSocket
       ELSE UNCHANGED <<sock_fd_, closes, rxq>>
    /\ UNCHANGED <<config, frame_buffer_, reads, buff, outcome, ret, written,
                   skipped, iters, setup, thrown, rcvbuf, filter, returned,
                   prev>>

\* A frame reaches the packet socket: it is queued when the socket exists,
\* the attached filter (if any) accepts it and the queue has room.
Arrive ==
    /\ kind = "raw"
    /\ sock_fd_ = "open"
    /\ Len(rxq) < MaxQueue
    /\ \E f \in NetFrames :
          /\ filter => BpfAccepts(f)
          /\ rxq' = Append(rxq, f)
    /\ UNCHANGED <<config, callv, sockv, prev>>

\* faulty variant: the frame is read with MSG_PEEK and stays queued
RecvQueued_Peek ==
    /\ pc = "recv"
    /\ rxq # << >>
    /\ frame_buffer_' = SubSeq(Head(rxq), 1, Min(Len(Head(rxq)), MAX_FRAME_SIZE))
    /\ pc' = "parse"
    /\ UNCHANGED <<config, reads, buff, outcome, ret, written, skipped, iters,
                   sockv, rxq, prev>>

\* faulty variant: recvfrom returns the newest queued frame
RecvQueued_Newest ==
    /\ pc = "recv"
    /\ rxq # << >>
    /\ frame_buffer_' = SubSeq(rxq[Len(rxq)], 1, Min(Len(rxq[Len(rxq)]), MAX_FRAME_SIZE))
    /\ rxq' = SubSeq(rxq, 1, Len(rxq) - 1)
    /\ pc' = "parse"
    /\ UNCHANGED <<config, reads, buff, outcome, ret, written, skipped, iters,
                   sockv, prev>>

\* recvfrom returns the oldest queued frame
RecvQueued ==
    /\ pc = "recv"
    /\ rxq # << >>
    /\ frame_buffer_' = SubSeq(Head(rxq), 1, Min(Len(Head(rxq)), MAX_FRAME_SIZE))
    /\ rxq' = Tail(rxq)
    /\ pc' = "parse"
    /\ UNCHANGED <<config, reads, buff, outcome, ret, written, skipped, iters,
                   sockv, prev>>

\* The source from the factory call on: its construction, the frames that
\* queue on its socket, its calls and its destruction.
NetInit ==
    /\ is_raw \in BOOLEAN
    /\ kind = Variant(is_raw)
    /\ port_ = DEFAULT_PORT
    /\ timeout_ms_ \in TimeoutValues
    /\ chunk_size_ \in ChunkSizes
    /\ pc = "new"
    /\ frame_buffer_ = << >>
    /\ reads = {}
    /\ buff = [k \in 1..chunk_size_ |-> 0]
    /\ outcome = "none"
    /\ ret = 0
    /\ written = 0
    /\ skipped = 0
    /\ iters = 0
    /\ setup = "setup_socket"
    /\ thrown = "none"
    /\ sock_fd_ = "invalid"
    /\ closes = 0
    /\ rcvbuf = "default"
    /\ filter = FALSE
    /\ returned = "none"
    /\ rxq = << >>
    /\ prev = "none"
    /\ NoFile
    /\ arrived = << >>
    /\ delivered = << >>

NetNext ==
    \/ SetupSocket /\ UNCHANGED <<filev, logv>>
    \/ SetBufferSize /\ UNCHANGED <<filev, logv>>
    \/ SetupBpfFilter /\ UNCHANGED <<filev, logv>>
    \/ BindSocket /\ UNCHANGED <<filev, logv>>
    \/ SetTimeout /\ UNCHANGED <<filev, logv>>
    \/ Arrive /\ UNCHANGED <<filev, logv>>
    \/ CallReadInto /\ prev' = outcome /\ UNCHANGED <<sockv, rxq, filev, logv>>
    \/ RecvQueued /\ UNCHANGED <<filev, logv>>
    \/ RecvTimeout /\ UNCHANGED <<sockv, rxq, prev, filev, logv>>
    \/ RecvInterrupt /\ UNCHANGED <<sockv, rxq, prev, filev, logv>>
    \/ RecvFault /\ UNCHANGED <<sockv, rxq, prev, filev, logv>>
    \/ ParseStep /\ UNCHANGED <<sockv, rxq, prev, filev, logv>>
    \/ UdpLoop /\ UNCHANGED <<sockv, rxq, prev, filev, logv>>
    \/ UdpUndefinedReturn /\ UNCHANGED <<sockv, rxq, prev, filev, logv>>
    \/ Destroy /\ UNCHANGED <<filev, logv>>

NetSpec == NetInit /\ [][NetNext]_vars

\* ------------------------------------------- a recorded run of the raw source
\* A frame reaches the packet socket of the constructed source and is queued
\* behind the frames already there; the run records it.
Enqueue ==
    /\ kind = "raw"
    /\ sock_fd_ = "open"
    /\ Len(arrived) < MaxArrivals
    /\ \E f \in NetFrames :
          /\ filter => BpfAccepts(f)
          /\ rxq' = Append(rxq, f)
          /\ arrived' = Append(arrived, f)
    /\ UNCHANGED <<config, callv, sockv, prev, delivered>>

\* what the caller has after read_into returned n: the count, and the first n
\* bytes of its buffer (all of it when n is more than it holds)
DataOf(n, b) == [n |-> n, bytes |-> SubSeq(b, 1, Min(n, Len(b)))]

\* lines 339-380 on the frame just received; the run records a return of
\* payload_len (line 380)
ParseLogged ==
    /\ ParseStep
    /\ delivered' = IF pc' = "idle" /\ outcome' = "Data"
                      THEN Append(delivered, DataOf(ret', buff'))
                      ELSE delivered
    /\ UNCHANGED <<sockv, rxq, prev, arrived>>

\* the raw source as the factory returned it: filter attached, nothing queued
SeqInit ==
    /\ Init
    /\ is_raw = TRUE

\* The calls of the raw source and the frames queued meanwhile.
SeqNext ==
    \/ Enqueue /\ UNCHANGED filev
    \/ CallReadInto /\ prev' = outcome /\ UNCHANGED <<sockv, rxq, filev, logv>>
    \/ RecvQueued /\ UNCHANGED <<filev, logv>>
    \/ RecvTimeout /\ UNCHANGED <<sockv, rxq, prev, filev, logv>>
    \/ RecvInterrupt /\ UNCHANGED <<sockv, rxq, prev, filev, logv>>
    \/ RecvFault /\ UNCHANGED <<sockv, rxq, prev, filev, logv>>
    \/ ParseLogged /\ UNCHANGED filev

SeqSpec == SeqInit /\ [][SeqNext]_vars

\* -------------------------------------------------------------- FileReader
\* file_buffer_sz above this gets a private stdio buffer (constructor)
VBUF_THRESHOLD == 8 * 1024

\* size_t arithmetic
SizeMod == 2 ^ SizeBits

\* faulty variant: size / chunk_sz, the last partial chunk not counted
ChunkCountOf_Floor(size, c) == size \div c

\* chunk_count = (fsz + chunk_sz - 1) / chunk_sz, in size_t
ChunkCountOf(size, c) == ((size + c - 1) % SizeMod) \div c

\* the byte of the file at offset i
FileByte(i) == 1 + (i % 255)

\* the bytes of the file from offset p, n of them
FileBytes(p, n) == [k \in 1..n |-> FileByte(p + k - 1)]

\* the buffer size the stream works with
StreamCap(bufsz) == IF bufsz > VBUF_THRESHOLD THEN bufsz ELSE DefaultBuf

\* fread of need bytes from a file of L bytes through the stream s: bytes
\* come out of the stream's buffer, which is refilled from the file at the
\* stream's position when it is used up; a refill that gets nothing sets the
\* end-of-file flag.
RECURSIVE FreadLoop(_, _, _, _)
FreadLoop(L, s, need, acc) ==
    IF need = 0 THEN [s |-> s, bytes |-> acc]
    ELSE IF s.pos >= s.bstart /\ s.pos < s.bstart + s.blen
    THEN LET take == Min(need, s.bstart + s.blen - s.pos) IN
         FreadLoop(L, [s EXCEPT !.pos = @ + take], need - take,
                   acc \o FileBytes(s.pos, take))
    ELSE LET n == Min(s.cap, L - s.pos) IN
         IF n <= 0 THEN [s |-> [s EXCEPT !.eof = TRUE], bytes |-> acc]
         ELSE FreadLoop(L, [s EXCEPT !.bstart = s.pos, !.blen = n], need, acc)

\* faulty variant: fseeko64(pf, offset, SEEK_CUR)
Fseek_FromCurrent(s, offset) ==
    [s EXCEPT !.pos = @ + offset, !.bstart = s.pos + offset, !.blen = 0,
              !.eof = FALSE]

\* fseeko64(pf, offset, SEEK_SET): the buffer is dropped, the flag cleared
Fseek(s, offset) ==
    [s EXCEPT !.pos = offset, !.bstart = offset, !.blen = 0, !.eof = FALSE]

\* faulty variant: fread asked for file_buffer_sz bytes
FreadCount_BufferSize(c, bufsz) == bufsz

\* faulty variant: every short read throws
ReadFails_NoFerror(rd, c, err) == rd < c

\* read_into throws when fread returned fewer bytes and ferror(pf)
ReadFails(rd, c, err) == rd < c /\ err

\* the count read_into passes to fread
FreadCount(c, bufsz) == c

\* fclose(pf) on the FILE
Fclose ==
    /\ stream' = [stream EXCEPT !.st = "closed"]
    /\ fcloses' = Sat(fcloses, 2)

\* std::free(vbuf_) on the stdio buffer
FreeVbuf ==
    /\ vb' = "freed"
    /\ frees' = Sat(frees, 2)

\* the socket reader's variables, which a file reader does not have
sockall == <<is_raw, port_, timeout_ms_, chunk_size_, frame_buffer_, reads,
             written, skipped, iters, sockv, rxq, prev, logv>>

\* constructor: pf = fopen(path, "rb"), or throw
FOpen ==
    /\ pc = "fopen"
    /\ \/ /\ stream' = [NoStream EXCEPT !.st = "open", !.cap = DefaultBuf]
          /\ inst' = [inst EXCEPT !["a"].pf = "h"]
          /\ pc' = IF file_buffer_sz > VBUF_THRESHOLD THEN "malloc" ELSE "file_size"
          /\ UNCHANGED outcome
       \/ /\ pc' = "ctor_failed"
          /\ outcome' = "OpenError"
          /\ UNCHANGED <<stream, inst>>
    /\ UNCHANGED <<kind, sockall, buff, ret, file_len, chunk_sz, offs, file_buffer_sz,
                   fsz, chunk_count, vb, fcloses, frees, results, got, seek_at>>

\* constructor: vbuf_ = malloc(file_buffer_sz), or fclose and throw
FMalloc ==
    /\ pc = "malloc"
    /\ \/ /\ vb' = "allocated"
          /\ inst' = [inst EXCEPT !["a"].vbuf_ = "v"]
          /\ pc' = "setvbuf"
          /\ UNCHANGED <<stream, fcloses, outcome>>
       \/ /\ Fclose
          /\ inst' = [inst EXCEPT !["a"].pf = "null"]
          /\ pc' = "ctor_failed"
          /\ outcome' = "AllocError"
          /\ UNCHANGED vb
    /\ UNCHANGED <<kind, sockall, buff, ret, file_len, chunk_sz, offs, file_buffer_sz,
                   fsz, chunk_count, frees, results, got, seek_at>>

\* constructor: setvbuf(pf, vbuf_, _IOFBF, file_buffer_sz), or free, fclose
\* and throw
FSetvbuf ==
    /\ pc = "setvbuf"
    /\ \/ /\ stream' = [stream EXCEPT !.cap = StreamCap(file_buffer_sz)]
          /\ pc' = "file_size"
          /\ UNCHANGED <<inst, vb, frees, fcloses, outcome>>
       \/ /\ FreeVbuf
          /\ Fclose
          /\ inst' = [inst EXCEPT !["a"].vbuf_ = "null", !["a"].pf = "null"]
          /\ pc' = "ctor_failed"
          /\ outcome' = "SetvbufError"
    /\ UNCHANGED <<kind, sockall, buff, ret, file_len, chunk_sz, offs, file_buffer_sz,
                   fsz, chunk_count, results, got, seek_at>>

\* constructor: fsz = fs::file_size(path) and chunk_count; file_size throws
\* filesystem_error when it fails
FFileSize ==
    /\ pc = "file_size"
    /\ \/ /\ fsz' = file_len
          /\ chunk_count' = ChunkCountOf(file_len, chunk_sz)
          /\ pc' = "jump_to"
          /\ UNCHANGED outcome
       \/ /\ pc' = "ctor_failed"
          /\ outcome' = "FileSizeError"
          /\ UNCHANGED <<fsz, chunk_count>>
    /\ UNCHANGED <<kind, sockall, buff, ret, file_len, chunk_sz, offs, file_buffer_sz,
                   inst, stream, vb, fcloses, frees, results, got, seek_at>>

\* constructor: jump_to(offs), which throws when fseeko64 fails; then the
\* object exists
FCtorSeek ==
    /\ pc = "jump_to"
    /\ \/ /\ stream' = Fseek(stream, offs)
          /\ seek_at' = offs
          /\ inst' = [inst EXCEPT !["a"].life = "live"]
          /\ pc' = "ready"
          /\ UNCHANGED outcome
       \/ /\ pc' = "ctor_failed"
          /\ outcome' = "SeekError"
          /\ UNCHANGED <<stream, seek_at, inst>>
    /\ UNCHANGED <<kind, sockall, buff, ret, file_len, chunk_sz, offs, file_buffer_sz,
                   fsz, chunk_count, vb, fcloses, frees, results, got>>

\* the object's pf points to a FILE that is open
Usable(i) == inst[i].life = "live" /\ inst[i].pf = "h" /\ stream.st = "open"

\* fread(buff_ptr, 1, n, pf) on the stream: the bytes it stores and the
\* stream it leaves; when the device fails (dev) nothing is stored and the
\* error indicator is set
Fread(L, s, n, dev) ==
    IF dev THEN [s |-> [s EXCEPT !.err = TRUE], bytes |-> << >>]
    ELSE FreadLoop(L, s, n, << >>)

\* read_into on object i: fread(buff_ptr, 1, chunk_sz, pf); throw when fewer
\* bytes came and ferror(pf); otherwise return the count
FReadInto(i) ==
    /\ pc = "ready"
    /\ Usable(i)
    /\ Len(results) < MaxReads
    /\ \E dev \in BOOLEAN :
          LET r == Fread(file_len, stream, FreadCount(chunk_sz, file_buffer_sz), dev)
              rd == Len(r.bytes) IN
          /\ stream' = r.s
          /\ buff' = Memcpy(buff, r.bytes, rd)
          /\ IF ReadFails(rd, chunk_sz, r.s.err)
               THEN /\ outcome' = "ReadError"
                    /\ UNCHANGED <<ret, results, got>>
               ELSE /\ outcome' = "Data"
                    /\ ret' = rd
                    /\ results' = Append(results, rd)
                    /\ got' = got \o SubSeq(Memcpy(buff, r.bytes, rd), 1, Min(rd, Len(buff)))
    /\ UNCHANGED <<kind, sockall, pc, file_len, chunk_sz, offs, file_buffer_sz, fsz,
                   chunk_count, inst, vb, fcloses, frees, seek_at>>

\* read_into or jump_to on an object whose pf is null or points to a closed
\* FILE: undefined; the call crashes, or returns anything and the program
\* goes on in a way the model does not follow ("undefined")
FUseAfterClose(i) ==
    /\ pc = "ready"
    /\ inst[i].life = "live"
    /\ ~Usable(i)
    /\ \/ pc' = "crashed" /\ outcome' = "Crash" /\ UNCHANGED ret
       \/ /\ pc' = "undefined"
          /\ outcome' = "Indeterminate"
          /\ \E n \in 0..chunk_sz : ret' = n
    /\ UNCHANGED <<kind, sockall, buff, filev>>

\* jump_to(offset) on object i
FJumpTo(i) ==
    /\ pc = "ready"
    /\ Usable(i)
    /\ \/ \E k \in 0..(file_len + 1) :
             /\ stream' = Fseek(stream, k)
             /\ seek_at' = k
             /\ results' = << >>
             /\ got' = << >>
             /\ UNCHANGED outcome
       \/ /\ outcome' = "SeekError"
          /\ UNCHANGED <<stream, seek_at, results, got>>
    /\ UNCHANGED <<kind, sockall, pc, buff, ret, file_len, chunk_sz, offs,
                   file_buffer_sz, fsz, chunk_count, inst, vb, fcloses, frees>>

\* faulty variant: close() without the tests of pf and vbuf_
CloseBody_Unguarded(i) ==
    /\ Fclose
    /\ FreeVbuf

\* close() of object i: fclose(pf) and pf = nullptr if pf; free(vbuf_) and
\* vbuf_ = nullptr if vbuf_
CloseBody(i) ==
    /\ IF inst[i].pf # "null" THEN Fclose ELSE UNCHANGED <<stream, fcloses>>
    /\ IF inst[i].vbuf_ # "null" THEN FreeVbuf ELSE UNCHANGED <<vb, frees>>

\* an explicit close() on object i
FClose(i) ==
    /\ pc = "ready"
    /\ inst[i].life = "live"
    /\ CloseBody(i)
    /\ inst' = [inst EXCEPT ![i].pf = "null", ![i].vbuf_ = "null"]
    /\ outcome' = "Closed"
    /\ UNCHANGED <<kind, sockall, pc, buff, ret, file_len, chunk_sz, offs,
                   file_buffer_sz, fsz, chunk_count, results, got, seek_at>>

\* ~FileReader of object i: close()
FDestroy(i) ==
    /\ pc = "ready"
    /\ inst[i].life = "live"
    /\ CloseBody(i)
    /\ inst' = [inst EXCEPT ![i] = [life |-> "dead", pf |-> "null", vbuf_ |-> "null"]]
    /\ UNCHANGED <<kind, sockall, pc, buff, ret, outcome, file_len, chunk_sz, offs,
                   file_buffer_sz, fsz, chunk_count, results, got, seek_at>>

\* FileReader b(a): the implicit copy constructor copies every member
FCopy ==
    /\ pc = "ready"
    /\ inst["a"].life = "live"
    /\ inst["b"].life = "none"
    /\ inst' = [inst EXCEPT !["b"] = inst["a"]]
    /\ UNCHANGED <<kind, sockall, pc, buff, ret, outcome, file_len, chunk_sz, offs,
                   file_buffer_sz, fsz, chunk_count, stream, vb, fcloses, frees,
                   results, got, seek_at>>

\* stdio buffer sizes the constructor is called with
FileBufferSizes == {VBUF_THRESHOLD, VBUF_THRESHOLD + 1}

\* FileReader fr(path, chunk_sz, offs, file_buffer_sz) is entered; the caller
\* has a buffer of chunk_sz bytes
FileInit ==
    /\ kind = "file"
    /\ is_raw = FALSE
    /\ port_ = DEFAULT_PORT
    /\ timeout_ms_ = 0
    /\ chunk_size_ = 0
    /\ pc = "fopen"
    /\ frame_buffer_ = << >>
    /\ reads = {}
    /\ outcome = "none"
    /\ ret = 0
    /\ written = 0
    /\ skipped = 0
    /\ iters = 0
    /\ setup = "none"
    /\ thrown = "none"
    /\ sock_fd_ = "invalid"
    /\ closes = 0
    /\ rcvbuf = "default"
    /\ filter = FALSE
    /\ returned = "none"
    /\ rxq = << >>
    /\ prev = "none"
    /\ file_len \in 0..MaxFileLen
    /\ chunk_sz \in 1..MaxChunk
    /\ buff = [k \in 1..chunk_sz |-> 0]
    /\ offs \in 0..MaxOffs
    /\ file_buffer_sz \in FileBufferSizes
    /\ fsz = 0
    /\ chunk_count = 0
    /\ inst = [i \in {"a", "b"} |-> NoObject]
    /\ stream = NoStream
    /\ vb = "none"
    /\ fcloses = 0
    /\ frees = 0
    /\ results = << >>
    /\ got = << >>
    /\ seek_at = 0
    /\ arrived = << >>
    /\ delivered = << >>

\* One FileReader: its construction, its calls, its destruction.
FileNext ==
    \/ FOpen
    \/ FMalloc
    \/ FSetvbuf
    \/ FFileSize
    \/ FCtorSeek
    \/ FReadInto("a")
    \/ FUseAfterClose("a")
    \/ FJumpTo("a")
    \/ FClose("a")
    \/ FDestroy("a")

FileSpec == FileInit /\ [][FileNext]_vars

\* The same with a copy of the object made and used next to it.
OwnNext ==
    \/ FOpen
    \/ FMalloc
    \/ FSetvbuf
    \/ FFileSize
    \/ FCtorSeek
    \/ FCopy
    \/ \E i \in {"a", "b"} : FReadInto(i)
    \/ \E i \in {"a", "b"} : FUseAfterClose(i)
    \/ \E i \in {"a", "b"} : FJumpTo(i)
    \/ \E i \in {"a", "b"} : FClose(i)
    \/ \E i \in {"a", "b"} : FDestroy(i)

OwnSpec == FileInit /\ [][OwnNext]_vars

\* get_chunk_count() on the object
FGetChunkCount ==
    /\ pc = "ready"
    /\ inst["a"].life = "live"
    /\ ret' = chunk_count
    /\ outcome' = "ChunkCount"
    /\ UNCHANGED <<kind, sockall, pc, buff, filev>>

\* sizes near 0 and near the largest size_t
SizeSamples == (0..SampleSpan) \cup ((SizeMod - 1 - SampleSpan)..(SizeMod - 1))

\* FileReader fr(path, chunk_sz) is entered for a file and a chunk size of
\* any size; no read follows
CountInit ==
    /\ kind = "file"
    /\ is_raw = FALSE
    /\ port_ = DEFAULT_PORT
    /\ timeout_ms_ = 0
    /\ chunk_size_ = 0
    /\ pc = "fopen"
    /\ frame_buffer_ = << >>
    /\ reads = {}
    /\ outcome = "none"
    /\ ret = 0
    /\ written = 0
    /\ skipped = 0
    /\ iters = 0
    /\ setup = "none"
    /\ thrown = "none"
    /\ sock_fd_ = "invalid"
    /\ closes = 0
    /\ rcvbuf = "default"
    /\ filter = FALSE
    /\ returned = "none"
    /\ rxq = << >>
    /\ prev = "none"
    /\ file_len \in SizeSamples
    /\ chunk_sz \in SizeSamples \ {0}
    /\ buff = << >>
    /\ offs = 0
    /\ file_buffer_sz \in FileBufferSizes
    /\ fsz = 0
    /\ chunk_count = 0
    /\ inst = [i \in {"a", "b"} |-> NoObject]
    /\ stream = NoStream
    /\ vb = "none"
    /\ fcloses = 0
    /\ frees = 0
    /\ results = << >>
    /\ got = << >>
    /\ seek_at = 0
    /\ arrived = << >>
    /\ delivered = << >>

CountNext ==
    \/ FOpen
    \/ FMalloc
    \/ FSetvbuf
    \/ FFileSize
    \/ FCtorSeek
    \/ FGetChunkCount

CountSpec == CountInit /\ [][CountNext]_vars

\* ---------------------------------------------------------------- claims
\* how a call ends when it throws SocketError
ErrorOutcomes == {"RecvError", "FrameTooSmall", "BadIHL", "SizeMismatch"}

\* the frame's IP header length in bytes, 4 * IHL
HdrLen(f) == 4 * (f[ETH_HLEN + 1] % 16)

\* the frame's big-endian UDP destination port, for a frame that holds it
DestPort(f) == f[ETH_HLEN + HdrLen(f) + 3] * 256 + f[ETH_HLEN + HdrLen(f) + 4]

\* a frame that holds its whole header stack, with a valid IP header length
WellFormed(f) ==
    /\ Len(f) >= ETH_HLEN + MIN_IP_HLEN + UDP_HLEN
    /\ HdrLen(f) >= MIN_IP_HLEN
    /\ HdrLen(f) <= 60
    /\ Len(f) >= ETH_HLEN + HdrLen(f) + UDP_HLEN

\* the frame's UDP payload: its bytes from offset 14 + H + 8 up to F
PayloadOf(f) == SubSeq(f, ETH_HLEN + HdrLen(f) + UDP_HLEN + 1, Len(f))

\* b holds exactly the bytes of p, in order, from its start
Holds(b, p) == Len(b) >= Len(p) /\ \A k \in 1..Len(p) : b[k] = p[k]

\* the step of ParseStep on a well-formed frame for the configured port ends
\* the call with Data(len(payload)) and the payload in the caller's buffer
DeliversPayload ==
    /\ pc' = "idle"
    /\ outcome' = "Data"
    /\ ret' = Len(frame_buffer_) - ETH_HLEN - HdrLen(frame_buffer_) - UDP_HLEN
    /\ Holds(buff', PayloadOf(frame_buffer_))

Matching == pc = "parse" /\ WellFormed(frame_buffer_) /\ DestPort(frame_buffer_) = port_

OtherPort == pc = "parse" /\ WellFormed(frame_buffer_) /\ DestPort(frame_buffer_) # port_

\* C1: every read_into call writes at most chunk_size bytes into the caller's
\* buffer and returns n with 0 <= n <= chunk_size.  Stated for the calls that
\* return a byte count from a receive (Data, Interrupted).
C1_WithinChunkSize ==
    /\ written <= chunk_size_
    /\ (pc = "idle" /\ outcome \in {"Data", "Interrupted"}) => (0 <= ret /\ ret <= chunk_size_)

\* C2: while handling a received frame of length F, raw read_into reads only
\* frame-buffer bytes at indices < F.
C2_ReadsInsideFrame ==
    (pc = "idle" /\ frame_buffer_ # << >>) => \A i \in reads : i < Len(frame_buffer_)

Discarded ==
    /\ pc' = "recv"
    /\ outcome' = "none"
    /\ buff' = buff
    /\ written' = 0
    /\ skipped' = Sat(skipped, MaxSkips)

C5_TruncatedRejected ==
    [][(/\ pc = "parse"
        /\ Len(frame_buffer_) >= ETH_HLEN + MIN_IP_HLEN + UDP_HLEN
        /\ HdrLen(frame_buffer_) >= MIN_IP_HLEN
        /\ Len(frame_buffer_) < ETH_HLEN + HdrLen(frame_buffer_) + UDP_HLEN)
       => (pc' = "idle" /\ outcome' \in ErrorOutcomes)]_vars

\* C6: a UDP read_into call performs one receive and returns Data, Timeout,
\* Interrupted or an error; it never stays inside read_into without receiving.
C6_UdpOneReceive ==
    /\ (kind = "udp" /\ iters >= 1) => pc = "idle"
    /\ (kind = "udp" /\ pc = "idle" /\ outcome # "none")
          => outcome \in {"Data", "ReadTimeout", "Interrupted", "RecvError"}

\* C7: every raw read_into call eventually returns an outcome, the receive
\* timeout guaranteeing it.  Stated for a source with a timeout configured.
C7_CallReturns ==
    (kind = "raw" /\ timeout_ms_ > 0 /\ pc = "recv") ~> (pc \in {"idle", "crashed"})

\* C8: a frame shorter than 42 bytes makes the call fail with an error; no
\* Data, nothing written to the caller's buffer, no header field parsed.
C8_ShortFrameRejected ==
    [][(pc = "parse" /\ Len(frame_buffer_) < 42)
       => (/\ pc' = "idle"
           /\ outcome' \in ErrorOutcomes
           /\ buff' = buff
           /\ written' = 0
           /\ reads' = {})]_vars

C8_Witness ==
    /\ pc = "idle" /\ outcome \in ErrorOutcomes
    /\ Len(frame_buffer_) = 41
    /\ DestPort(frame_buffer_) = port_

\* C9: a frame of at least 42 bytes whose IHL nibble is 0..4 makes read_into
\* fail with an error, whatever its other bytes are.
C9_BadIhlRejected ==
    [][(/\ pc = "parse"
        /\ Len(frame_buffer_) >= 42
        /\ (frame_buffer_[15] % 16) \in 0..4)
       => (pc' = "idle" /\ outcome' \in ErrorOutcomes /\ buff' = buff /\ written' = 0)]_vars

C9_Witness ==
    /\ pc = "idle" /\ outcome \in ErrorOutcomes
    /\ Len(frame_buffer_) >= 42
    /\ frame_buffer_[15] % 16 = 4
    /\ DestPort(frame_buffer_) = port_

\* C10: a socket-backed source reports Timeout, never Data, on each call whose
\* receive times out, stays usable, and returns the payload of a matching
\* datagram or frame on the call that receives it.
C10_TimeoutsThenData ==
    /\ (pc \in {"recv", "udp_loop"} /\ (iters >= 1 \/ skipped >= 1)) => skipped >= 1
    /\ (pc = "idle" /\ outcome = "Data")
          => /\ WellFormed(frame_buffer_)
             /\ DestPort(frame_buffer_) = port_
             /\ Holds(buff, PayloadOf(frame_buffer_))
    /\ pc # "crashed"

\* how a call ends when the frame it received fails validation
MalformedOutcomes == {"FrameTooSmall", "BadIHL", "SizeMismatch"}

\* the receive of a call that follows a call that ended with out takes the
\* oldest queued frame off the queue
TakesNextQueued(out) ==
    (prev \in out /\ pc = "recv" /\ pc' = "parse")
        => (frame_buffer_' = Head(rxq) /\ rxq' = Tail(rxq))

\* a malformed-frame error ends the call and leaves the socket, the queue
\* behind the malformed frame and the caller's buffer as they were; the next
\* call starts receiving
ErrorKeepsSource ==
    /\ (pc = "parse" /\ outcome' \in MalformedOutcomes)
          => /\ pc' = "idle"
             /\ sock_fd_' = "open" /\ closes' = closes
             /\ rxq' = rxq
             /\ buff' = buff
    /\ (pc = "idle" /\ outcome \in MalformedOutcomes /\ pc' # "idle" /\ pc' # "destroyed")
          => (pc' = "recv" /\ frame_buffer_' = << >> /\ rxq' = rxq /\ outcome' = "none")
    /\ TakesNextQueued(MalformedOutcomes)

C12_InterruptKeepsSource ==
    [][/\ (pc = "recv" /\ outcome' = "Interrupted")
             => /\ pc' = "idle"
                /\ ret' = 0
                /\ buff' = buff /\ written' = 0
                /\ rxq' = rxq
                /\ sock_fd_' = sock_fd_ /\ closes' = closes
       /\ (pc = "idle" /\ outcome = "Interrupted" /\ pc' # "idle" /\ pc' # "destroyed")
             => /\ pc' = "recv"
                /\ frame_buffer_' = << >>
                /\ outcome' = "none"
                /\ skipped' = 0
                /\ buff' = buff
                /\ rxq' = rxq
       /\ TakesNextQueued({"Interrupted"})]_vars

C12_Witness ==
    /\ prev = "Interrupted"
    /\ pc = "idle" /\ outcome = "Data" /\ ret = 1
    /\ buff[1] = PayloadOf(frame_buffer_)[1]
    /\ sock_fd_ = "open"

\* the calls whose failure makes the constructor throw
AbortingCalls ==
    {"socket", "SO_ATTACH_FILTER", "SO_BINDTODEVICE", "SIOCGIFINDEX", "bind",
     "inet_pton", "SO_RCVTIMEO"}

\* C13: a failing setup call ends construction with a throw, no object
\* returned and the socket opened so far closed exactly once; a failure to
\* enlarge the receive buffer is none of the aborting failures; a complete
\* construction returns the raw variant iff is_raw, with its socket open.
C13_AllOrNothing ==
    /\ (setup = "failed")
          => /\ thrown \in AbortingCalls
             /\ returned = "none"
             /\ pc = "new"
             /\ IF thrown = "socket"
                  THEN sock_fd_ = "invalid" /\ closes = 0
                  ELSE sock_fd_ = "closed" /\ closes = 1
    /\ (setup # "failed") => thrown = "none"
    /\ (returned # "none") => setup = "done"
    /\ (setup = "done")
          => /\ returned = (IF is_raw THEN "raw" ELSE "udp")
             /\ kind = returned
             /\ pc # "new"
             /\ (pc # "destroyed") => (sock_fd_ = "open" /\ closes = 0)

C13_Witness ==
    /\ setup = "failed"
    /\ thrown = "SIOCGIFINDEX"
    /\ rcvbuf = "default"
    /\ sock_fd_ = "closed" /\ closes = 1
    /\ returned = "none"

\* C20: every frame the raw read_into handles has EtherType IPv4 and IP
\* protocol UDP, whenever it arrived.
C20_OnlyIpv4Udp ==
    (kind = "raw" /\ frame_buffer_ # << >>) => BpfAccepts(frame_buffer_)

\* C14: no two live objects hold the same FILE or the same stdio buffer, and
\* neither is released twice.
C14_SingleOwner ==
    /\ (inst["a"].life = "live" /\ inst["b"].life = "live")
          => /\ (inst["a"].pf = "null" \/ inst["a"].pf # inst["b"].pf)
             /\ (inst["a"].vbuf_ = "null" \/ inst["a"].vbuf_ # inst["b"].vbuf_)
    /\ fcloses <= 1
    /\ frees <= 1

\* C15: however many times close() has run on a FileReader, explicitly or
\* from its destructor, the FILE was closed once and the stdio buffer freed
\* once, by the first of them.
C15_CloseIdempotent ==
    (pc \in {"ready", "crashed", "undefined"})
       => /\ fcloses = (IF inst["a"].pf = "null" THEN 1 ELSE 0)
          /\ stream.st = (IF inst["a"].pf = "null" THEN "closed" ELSE "open")
          /\ (vb = "none") => (frees = 0 /\ inst["a"].vbuf_ = "null")
          /\ (vb # "none")
                => /\ frees = (IF inst["a"].vbuf_ = "null" THEN 1 ELSE 0)
                   /\ vb = (IF inst["a"].vbuf_ = "null" THEN "freed" ELSE "allocated")

C15_Witness ==
    /\ inst["a"].life = "dead"
    /\ outcome = "Closed"
    /\ fcloses = 1 /\ frees = 1
    /\ stream.st = "closed" /\ vb = "freed"

RECURSIVE Sum(_)
Sum(q) == IF q = << >> THEN 0 ELSE Head(q) + Sum(Tail(q))

CeilDiv(a, b) == (a \div b) + (IF a % b = 0 THEN 0 ELSE 1)

\* the length of the j-th chunk of a file of file_len bytes read in chunks of
\* chunk_sz from offset k
ExpectedLen(k, j) == Min(chunk_sz, Max(0, file_len - k - (j - 1) * chunk_sz))

\* C16: the reads of a FileReader from offset 0 return chunk_sz for each
\* whole chunk, the rest of the file for the last one, then 0: ceil(L/c)
\* non-zero results that sum to L; no read throws unless the device failed.
C16_ChunkedRead ==
    /\ (seek_at = 0)
          => /\ \A j \in 1..Len(results) : results[j] = ExpectedLen(0, j)
             /\ Sum(results) <= file_len
             /\ (\E j \in 1..Len(results) : results[j] = 0)
                   => /\ Sum(results) = file_len
                      /\ Cardinality({j \in 1..Len(results) : results[j] # 0})
                            = CeilDiv(file_len, chunk_sz)
    /\ (kind = "file" /\ outcome = "ReadError") => stream.err

C16_Witness ==
    /\ seek_at = 0 /\ offs = 0
    /\ file_len = 3 /\ chunk_sz = 2
    /\ results = <<2, 1, 0, 0>>
    /\ outcome = "Data"

\* the reads since the last positioning at k returned the bytes of the file
\* from k on, in chunks of chunk_sz counted from k
SuffixRead ==
    /\ \A j \in 1..Len(results) : results[j] = ExpectedLen(seek_at, j)
    /\ got = FileBytes(seek_at, Sum(results))
    /\ (seek_at >= file_len /\ results # << >>) => results[1] = 0

\* where the chunks read since the last positioning end in the file
ChunkEnds ==
    { seek_at + Sum(SubSeq(results, 1, j)) : j \in {i \in 1..Len(results) : results[i] # 0} }

\* where the chunks of a read from offset 0 end, past the first k bytes
StartEndsPast(k) ==
    { b \in { Min(file_len, m * chunk_sz) : m \in 1..CeilDiv(file_len, chunk_sz) } : b > k }

\* C17 (as claimed): after positioning at k the reads yield the bytes and the
\* chunk boundaries of a read from the start with its first k bytes dropped.
C17_SeekThenRead_Original ==
    /\ SuffixRead
    /\ ChunkEnds \subseteq StartEndsPast(seek_at)
    /\ (\E j \in 1..Len(results) : results[j] = 0) => ChunkEnds = StartEndsPast(seek_at)

\* C17 (amended): they yield the bytes of that read, in chunks of chunk_sz
\* counted from k; for k >= L the first read returns 0.
C17_SeekThenRead ==
    SuffixRead

C17_Witness ==
    /\ offs = 0 /\ seek_at = 1
    /\ file_len = 3 /\ chunk_sz = 2
    /\ results = <<2, 0>>
    /\ got = <<FileByte(1), FileByte(2)>>

\* C18: get_chunk_count() returns ceil(size / chunk_size).
C18_ChunkCountIsCeil ==
    (pc = "ready" /\ outcome = "ChunkCount") => ret = CeilDiv(fsz, chunk_sz)

\* C19: whatever the stdio buffer size, a read returns what a read of the
\* file itself at the reader's position returns: min(chunk_sz, L - pos) bytes
\* of the file from pos, stored from the start of the caller's buffer, the
\* position advancing by as much.
C19_BufferSizeUnobservable ==
    [][(Len(results') = Len(results) + 1)
       => LET p == stream.pos
              n == Min(chunk_sz, Max(0, file_len - p)) IN
          /\ ret' = n
          /\ results'[Len(results')] = n
          /\ stream'.pos = p + n
          /\ \A k \in 1..Len(buff) :
                buff'[k] = IF k <= n THEN FileByte(p + k - 1) ELSE buff[k]]_vars

C19_Witness ==
    /\ file_buffer_sz <= VBUF_THRESHOLD /\ vb = "none"
    /\ stream.cap < file_len
    /\ stream.bstart > 0 /\ stream.blen > 0
    /\ results = <<2, 1>>

\* C21: a construction that fails after fopen succeeded has closed the FILE
\* exactly once and, when the stdio buffer was allocated, freed it exactly
\* once; nothing stays open or allocated when the error propagates.
C21_FailedCtorReleases ==
    (kind = "file" /\ pc = "ctor_failed" /\ outcome # "OpenError")
        => /\ stream.st = "closed" /\ fcloses = 1
           /\ vb # "allocated"
           /\ (vb = "freed" => frees = 1)
           /\ inst["a"].pf = "null" /\ inst["a"].vbuf_ = "null"

\* C22: once close() has set pf to null, no read_into and no jump_to hands
\* that null handle to fread or fseeko64: no call on a closed reader is
\* undefined.
C22_ClosedNeverUsed ==
    (kind = "file" /\ inst["a"].life = "live" /\ inst["a"].pf = "null")
        => (pc = "ready" /\ outcome \notin {"Crash", "Indeterminate"})

\* the step is the copy of line 379: the parse of a frame that passed every
\* check stores its payload and ends the call with Data (or, the copy being
\* longer than the caller's buffer, ends the program)
CopyStep ==
    /\ pc = "parse"
    /\ pc' \in {"idle", "crashed"}
    /\ outcome' \in {"Data", "Crash"}
    /\ written' = Len(frame_buffer_) - TotalHeaders(HdrLen(frame_buffer_))

\* C24: a step of a raw read_into call that ends the call with Timeout,
\* Interrupted or an error, or that discards a wrong-port frame, stores
\* nothing in the caller's buffer; the only step that stores anything is the
\* one copy that ends the call with Data.
C24_BufferOnlyByCopy ==
    [][(kind = "raw")
        => /\ (pc \in {"recv", "parse"}
                 /\ outcome' \in ({"ReadTimeout", "Interrupted"} \cup ErrorOutcomes))
                 => (pc' = "idle" /\ buff' = buff /\ written' = 0)
           /\ (pc = "parse" /\ pc' = "recv") => (buff' = buff /\ written' = 0)
           /\ (buff' # buff \/ written' # 0) => CopyStep]_vars

C24_Witness ==
    /\ kind = "raw" /\ pc = "idle"
    /\ outcome \in ({"ReadTimeout"} \cup ErrorOutcomes)
    /\ skipped = MaxSkips
    /\ written = 0
    /\ buff[1] # 0

\* a well-formed frame for the configured port
MatchingFrame(f) == WellFormed(f) /\ DestPort(f) = port_

\* the well-formed frames for the configured port among those queued so far,
\* in arrival order
Expected == SelectSeq(arrived, MatchingFrame)

\* those of them no call has handled yet: the frame being parsed, if any, and
\* the frames still queued
Pending ==
    SelectSeq((IF pc = "parse" THEN <<frame_buffer_>> ELSE << >>) \o rxq,
              MatchingFrame)

\* what a call returns that delivers the payload of f
PayloadData(f) == [n |-> Len(PayloadOf(f)), bytes |-> PayloadOf(f)]

=============================================================================
